---- MODULE Spec2Model ----
(***************************************************************************)
(* Model of boltzdesign/aptamer_utils.py: the decoded-sequence utilities   *)
(* (calculate_gc_content, calculate_tm, validate_aptamer_sequence) and the *)
(* differentiable loss engine (gc_content_loss, sequence_complexity_loss,  *)
(* homopolymer_penalty, aptamer_structure_loss, aptamer_design_loss).      *)
(*                                                                         *)
(* Every function of the module is pure.  A behaviour is one call: Init    *)
(* draws the arguments, the action of the function computes the value the  *)
(* call returns (or the exception it raises) into `result`.                *)
(*                                                                         *)
(* A decoded sequence is a TLA+ sequence of one-character strings.         *)
(***************************************************************************)
EXTENDS Integers, Sequences, FiniteSets, TLC

VARIABLES
    pc,              \* "ready" before the call, "done" after it
    fn,              \* the function the behaviour calls
    sequence,        \* str argument of the string utilities
    min_length,      \* validate_aptamer_sequence
    max_length,      \* validate_aptamer_sequence
    na_conc,         \* calculate_tm, mM
    mg_conc,         \* calculate_tm, mM
    logits,          \* tensor argument of the loss functions
    target_gc,       \* aptamer_design_loss
    structure_type,  \* aptamer_structure_loss, aptamer_design_loss
    weights,         \* aptamer_design_loss: None or a dict
    max_run,         \* homopolymer_penalty
    weight,          \* homopolymer_penalty, aptamer_structure_loss
    result           \* the value returned, or the exception raised

\* the arguments of the call: no function changes them
args == <<fn, sequence, min_length, max_length, na_conc, mg_conc, logits,
          target_gc, structure_type, weights, max_run, weight>>

vars == <<pc, args, result>>

\* The value of an argument the called function does not take.
NoArg == "-"

\* The value of `result` before the call returns.
NoResult == [kind |-> "pending"]

(***************************************************************************)
(* Strings                                                                 *)
(***************************************************************************)

\* s * k for a str s
RECURSIVE Rep(_, _)
Rep(s, k) == IF k <= 0 THEN <<>> ELSE s \o Rep(s, k - 1)

\* `needle in hay` for two str
Contains(hay, needle) ==
    \E k \in 0..(Len(hay) - Len(needle)) :
        \A j \in 1..Len(needle) : hay[k + j] = needle[j]

\* s.count(c) for a one-character c
Count(s, c) == Cardinality({i \in 1..Len(s) : s[i] = c})

\* s[:i]
Prefix(s, i) == SubSeq(s, 1, IF i < Len(s) THEN i ELSE Len(s))

UpperChar(c) ==
    CASE c = "a" -> "A"
      [] c = "c" -> "C"
      [] c = "g" -> "G"
      [] c = "t" -> "T"
      [] c = "u" -> "U"
      [] c = "n" -> "N"
      [] OTHER -> c

\* str.upper()
Upper(s) == [i \in 1..Len(s) |-> UpperChar(s[i])]

(***************************************************************************)
(* calculate_gc_content                                                    *)
(***************************************************************************)

\* gc_count of calculate_gc_content: G and C of the upper-cased sequence
gc_count(s) == Count(Upper(s), "G") + Count(Upper(s), "C")

\* calculate_gc_content(s) as the exact fraction <<numerator, denominator>>;
\* the empty sequence gives 0.0, written 0/1.
calculate_gc_content(s) ==
    IF Len(s) > 0 THEN <<gc_count(s), Len(s)>> ELSE <<0, 1>>

\* gc < num/den for a fraction returned by calculate_gc_content.  A Python
\* float quotient a/b compares with the literal 0.3 (0.7) as the rational
\* does: equal rationals round to the same double, different ones differ by
\* far more than one ulp.
FracLess(f, num, den) == f[1] * den < num * f[2]
FracGreater(f, num, den) == f[1] * den > num * f[2]

(***************************************************************************)
(* validate_aptamer_sequence                                               *)
(***************************************************************************)

MinLengthDefault == 20
MaxLengthDefault == 100
HomopolymerRun == 6

valid_nt == {"A", "C", "G", "T", "U"}
HomopolymerBases == <<"A", "C", "G", "U">>
RepeatPeriods == 2..5

Fail(message, detail) == [kind |-> "return", ok |-> FALSE, msg |-> message, detail |-> detail]
Pass == [kind |-> "return", ok |-> TRUE, msg |-> "Sequence passed validation", detail |-> <<>>]

\* LongRuns looking for a run one base too long (nt * 7)
LongRuns_OffByOne(s) ==
    {k \in 1..Len(HomopolymerBases) :
        Contains(s, Rep(<<HomopolymerBases[k]>>, HomopolymerRun + 1))}

\* the bases nt of 'ACGU', by index, with nt * 6 in sequence
LongRuns(s) ==
    {k \in 1..Len(HomopolymerBases) :
        Contains(s, Rep(<<HomopolymerBases[k]>>, HomopolymerRun))}

\* SimpleRepeats searching the sequence itself instead of sequence * 2
SimpleRepeats_NoWrap(s) ==
    {i \in RepeatPeriods :
        Contains(s, Rep(Prefix(s, i), (Len(s) \div i) + 1))}

\* the periods i of range(2, 6) with repeat * (length // i + 1) in sequence * 2
SimpleRepeats(s) ==
    {i \in RepeatPeriods :
        Contains(Rep(s, 2), Rep(Prefix(s, i), (Len(s) \div i) + 1))}

Min(S) == CHOOSE x \in S : \A y \in S : x <= y

homopolymer_check(s, rest) ==
    IF LongRuns(s) # {}
    THEN Fail("Long homopolymer detected",
              Rep(<<HomopolymerBases[Min(LongRuns(s))]>>, HomopolymerRun))
    ELSE rest

gc_check(s, rest) ==
    LET gc == calculate_gc_content(s) IN
    IF FracLess(gc, 3, 10) \/ FracGreater(gc, 7, 10)
    THEN Fail("Extreme GC content", gc)
    ELSE rest

\* validate_aptamer_sequence with the homopolymer check ahead of the GC check
validate_HomopolymerFirst(seq, minl, maxl) ==
    LET s == Upper(seq)
        length == Len(s)
        invalid == {s[i] : i \in 1..length} \ valid_nt
        repeat_check ==
            IF SimpleRepeats(s) # {}
            THEN Fail("Simple repeat detected", Prefix(s, Min(SimpleRepeats(s))))
            ELSE Pass
    IN  IF length < minl THEN Fail("Sequence too short", <<length, minl>>)
        ELSE IF length > maxl THEN Fail("Sequence too long", <<length, maxl>>)
        ELSE IF invalid # {} THEN Fail("Invalid nucleotides", invalid)
        ELSE homopolymer_check(s, gc_check(s, repeat_check))

validate_aptamer_sequence(seq, minl, maxl) ==
    LET s == Upper(seq)
        length == Len(s)
        invalid == {s[i] : i \in 1..length} \ valid_nt
        repeat_check ==
            IF SimpleRepeats(s) # {}
            THEN Fail("Simple repeat detected", Prefix(s, Min(SimpleRepeats(s))))
            ELSE Pass
    IN  IF length < minl THEN Fail("Sequence too short", <<length, minl>>)
        ELSE IF length > maxl THEN Fail("Sequence too long", <<length, maxl>>)
        ELSE IF invalid # {} THEN Fail("Invalid nucleotides", invalid)
        ELSE gc_check(s, homopolymer_check(s, repeat_check))

(***************************************************************************)
(* calculate_tm                                                            *)
(***************************************************************************)

\* Temperatures are fixed-point numbers, TmUnit to the degree.
TmUnit == 100 * 1000
WallaceLimit == 14
NaConcDefault == 50
MgConcDefault == 2

\* np.log10(x) * TmUnit for the concentrations the model draws,
\* x given in thousandths (so that na_conc / 1000.0 is in the domain).
Log10Milli(x) ==
    CASE x = 50      -> -130103
      [] x = 1000    -> 0
      [] x = 2000    -> 30103
      [] x = 10000   -> 100000

\* calculate_tm taking the Wallace rule up to and including 14 bases
calculate_tm_Inclusive(seq, na, mg) ==
    LET s == Upper(seq)
        length == Len(s)
        at_count == Count(s, "A") + Count(s, "T") + Count(s, "U")
        gcs == Count(s, "G") + Count(s, "C")
        gc_content == calculate_gc_content(s)
        tm == IF length <= WallaceLimit
              THEN (2 * at_count + 4 * gcs) * TmUnit
              ELSE (815 * TmUnit) \div 10
                   + (166 * Log10Milli(na)) \div 10
                   + (41 * gc_content[1] * TmUnit) \div gc_content[2]
                   - (675 * TmUnit) \div length
    IN  [kind |-> "return",
         tm |-> IF mg > 0 THEN tm + Log10Milli(mg * 1000) * 2 ELSE tm]

calculate_tm(seq, na, mg) ==
    LET s == Upper(seq)
        length == Len(s)
        at_count == Count(s, "A") + Count(s, "T") + Count(s, "U")
        gcs == Count(s, "G") + Count(s, "C")
        gc_content == calculate_gc_content(s)
        tm == IF length < WallaceLimit
              THEN (2 * at_count + 4 * gcs) * TmUnit
              ELSE (815 * TmUnit) \div 10
                   + (166 * Log10Milli(na)) \div 10
                   + (41 * gc_content[1] * TmUnit) \div gc_content[2]
                   - (675 * TmUnit) \div length
    IN  [kind |-> "return",
         tm |-> IF mg > 0 THEN tm + Log10Milli(mg * 1000) * 2 ELSE tm]

(***************************************************************************)
(* Numbers of the loss engine                                              *)
(*                                                                         *)
(* A real number x is the fixed-point integer x * SCALE, products and      *)
(* quotients rounded down.  A scalar the engine computes is a record       *)
(*   [t |-> "tensor" or "float", nan |-> BOOLEAN, v |-> fixed-point value] *)
(* t tells a 0-dim torch.Tensor from a Python float (only the former has   *)
(* .item()); nan is IEEE not-a-number, which every operation propagates.   *)
(***************************************************************************)

SCALE == 34 * 600

Tensor(x) == [t |-> "tensor", nan |-> FALSE, v |-> x]
Float(x) == [t |-> "float", nan |-> FALSE, v |-> x]
NaNTensor == [t |-> "tensor", nan |-> TRUE, v |-> 0]

\* type of the result of a binary operation: a tensor when either side is one
Promote(x, y) == IF x.t = "tensor" \/ y.t = "tensor" THEN "tensor" ELSE "float"

Add(x, y) ==
    [t |-> Promote(x, y), nan |-> x.nan \/ y.nan,
     v |-> IF x.nan \/ y.nan THEN 0 ELSE x.v + y.v]

Mul(x, y) ==
    [t |-> Promote(x, y), nan |-> x.nan \/ y.nan,
     v |-> IF x.nan \/ y.nan THEN 0 ELSE (x.v * y.v) \div SCALE]

Neg(x) == [x EXCEPT !.v = 0 - x.v]

RECURSIVE SumTo(_, _)
\* f[1] + ... + f[n]
SumTo(f, n) == IF n = 0 THEN 0 ELSE f[n] + SumTo(f, n - 1)

\* Tensor.mean() of the elements xs (a sequence): nan for no element
Mean(xs) ==
    IF Len(xs) = 0 THEN NaNTensor ELSE Tensor(SumTo(xs, Len(xs)) \div Len(xs))

Max(a, b) == IF a >= b THEN a ELSE b
Minimum(a, b) == IF a <= b THEN a ELSE b

(***************************************************************************)
(* Vocabulary and softmax                                                  *)
(*                                                                         *)
(* logits is one batch item: a sequence over the positions, each position  *)
(* the set of vocabulary indices whose logit is 0, every other logit of    *)
(* the position being -inf.  exp(0) = 1 and exp(-inf) = 0, so softmax      *)
(* makes the position uniform over that set.                               *)
(***************************************************************************)

VocabSize == 34
A_RNA == 24
G_RNA == 25
C_RNA == 26
U_RNA == 27
G_DNA == 30
C_DNA == 31

Vocab == 0..(VocabSize - 1)

\* torch.softmax(logits, dim=-1)
Softmax(lg) ==
    [l \in 1..Len(lg) |->
        [i \in Vocab |-> IF i \in lg[l] THEN SCALE \div Cardinality(lg[l]) ELSE 0]]

\* sum over the vocabulary of p[i] * q[i]: one entry of the einsum
\* '...li,...mi->...lm' or '...li,...li->...l'
Dot(p, q) ==
    SumTo([k \in 1..VocabSize |-> p[k - 1] * q[k - 1]], VocabSize) \div SCALE

(***************************************************************************)
(* gc_content_loss                                                         *)
(***************************************************************************)

gc_content_loss(lg, target, w) ==
    LET probs == Softmax(lg)
        gc_prob == [l \in 1..Len(lg) |->
                      Max(probs[l][G_RNA] + probs[l][C_RNA],
                          probs[l][G_DNA] + probs[l][C_DNA])]
        mean_gc == Mean(gc_prob)
        diff == Add(mean_gc, Neg(target))
        loss == Mul(diff, diff)
    IN  Mul(w, loss)

(***************************************************************************)
(* sequence_complexity_loss                                                *)
(***************************************************************************)

\* natural logarithm, in thousandths, of the integers the model meets
LnMilli(n) ==
    CASE n = 1 -> 0
      [] n = VocabSize -> 3526

\* torch.log(p + 1e-10) of a probability p: log(1e-10) for p = 0
\* (multiplied by p = 0 in the entropy), log(1/n) for the uniform 1/n
LogProb(p) ==
    IF p = 0 THEN 0 - (23026 * SCALE) \div 1000
    ELSE 0 - (LnMilli(SCALE \div p) * SCALE) \div 1000

sequence_complexity_loss(lg, w) ==
    LET probs == Softmax(lg)
        entropy == [l \in 1..Len(lg) |->
                      0 - SumTo([k \in 1..VocabSize |->
                                   probs[l][k - 1] * LogProb(probs[l][k - 1])],
                                VocabSize) \div SCALE]
        mean_entropy == Mean(entropy)
        max_entropy == (LnMilli(VocabSize) * SCALE) \div 1000
        complexity_score ==
            [mean_entropy EXCEPT !.v = (mean_entropy.v * SCALE) \div max_entropy]
        loss == Add(Float(SCALE), Neg(complexity_score))
    IN  Mul(w, loss)

(***************************************************************************)
(* homopolymer_penalty                                                     *)
(***************************************************************************)

MaxRunDefault == 4

\* torch.diagonal(similarity, offset=i).mean() * (i / max_run)
DiagonalTerm(probs, i, mr) ==
    LET L == Len(probs)
        diagonal == [l \in 1..(L - i) |-> Dot(probs[l], probs[l + i])]
    IN  Mul(Mean(diagonal), Float((i * SCALE) \div mr))

RECURSIVE PenaltyLoop(_, _, _)
\* penalty after the iterations 1..n of `for i in range(1, ...)`,
\* starting from the Python float 0.0
PenaltyLoop(probs, n, mr) ==
    IF n <= 0 THEN Float(0)
    ELSE Add(PenaltyLoop(probs, n - 1, mr), DiagonalTerm(probs, n, mr))

\* LastOffset of a loop that compares adjacent positions only
LastOffset_AdjacentOnly(L, mr) == Minimum(2, L) - 1

\* the last offset of range(1, min(max_run + 1, probs.shape[1]))
LastOffset(L, mr) == Minimum(mr + 1, L) - 1

homopolymer_penalty(lg, mr, w) ==
    LET probs == Softmax(lg)
        penalty == PenaltyLoop(probs, LastOffset(Len(lg), mr), mr)
    IN  Mul(w, penalty)

(***************************************************************************)
(* aptamer_structure_loss                                                  *)
(***************************************************************************)

StemMax == 6
StructureWeightDefault == (15 * SCALE) \div 100

Return(x) == [kind |-> "return", value |-> x]
Raise(exc, what) == [kind |-> "raise", exc |-> exc, what |-> what]

\* min(6, seq_len // 3)
StemLength(L) == Minimum(StemMax, L \div 3)

\* number of positions of probs[:, -stem_length:, :]: the slice [-0:] is [0:],
\* the whole sequence
Stem3Length(L) == IF StemLength(L) = 0 THEN L ELSE StemLength(L)

\* the 'hairpin' branch: the loss, or the error of the einsum
hairpin_loss(probs) ==
    LET L == Len(probs)
        n5 == StemLength(L)
        n3 == Stem3Length(L)
        stem_5_probs == [l \in 1..n5 |-> probs[l]]
        stem_3_probs == [l \in 1..n3 |-> probs[L + 1 - l]]
        \* einsum lets a dimension of size 1 broadcast and rejects other
        \* differing sizes
        n == IF n5 = n3 THEN n5 ELSE IF n3 = 1 THEN n5 ELSE n3
        complementarity ==
            [l \in 1..n |->
                Dot(stem_5_probs[IF n5 = 1 THEN 1 ELSE l],
                    stem_3_probs[IF n3 = 1 THEN 1 ELSE l])]
    IN  IF n5 # n3 /\ n5 # 1 /\ n3 # 1
        THEN Raise("RuntimeError", "einsum")
        ELSE Return(Neg(Mean(complementarity)))

g_quadruplex_loss(probs) ==
    LET g_prob == [l \in 1..Len(probs) |-> Max(probs[l][G_RNA], probs[l][G_DNA])]
    IN  Return(Neg(Mean(g_prob)))

\* aptamer_structure_loss whose default branch falls back to the hairpin loss
aptamer_structure_loss_DefaultHairpin(lg, st, w) ==
    LET probs == Softmax(lg)
        loss == IF st = "g_quadruplex" THEN g_quadruplex_loss(probs)
                ELSE hairpin_loss(probs)
    IN  IF loss.kind = "raise" THEN loss ELSE Return(Mul(w, loss.value))

aptamer_structure_loss(lg, st, w) ==
    LET probs == Softmax(lg)
        loss == IF st = "hairpin" THEN hairpin_loss(probs)
                ELSE IF st = "g_quadruplex" THEN g_quadruplex_loss(probs)
                ELSE Return(Tensor(0))
    IN  IF loss.kind = "raise" THEN loss ELSE Return(Mul(w, loss.value))

(***************************************************************************)
(* aptamer_design_loss                                                     *)
(***************************************************************************)

\* the weights argument: None, or a dict d
None == [none |-> TRUE, d |-> <<>>]
Dict(d) == [none |-> FALSE, d |-> d]

\* the structure_type argument None
NoStructure == "None"

WeightKeys == {"gc_content", "complexity", "homopolymer", "structure"}

DefaultWeights ==
    [k \in WeightKeys |->
        CASE k = "gc_content"  -> (10 * SCALE) \div 100
          [] k = "complexity"  -> (20 * SCALE) \div 100
          [] k = "homopolymer" -> (30 * SCALE) \div 100
          [] k = "structure"   -> StructureWeightDefault]

\* `if structure_type:` None and the empty string are false
Truthy(st) == st # NoStructure /\ st # ""

\* x.item(): a tensor gives its value as a Python float, a float has no .item
HasItem(x) == x.t = "tensor"
Item(x) == [x EXCEPT !.t = "float"]

\* design_finish with the structure term left out of the total
design_finish_NoStructureInTotal(lg, st, w, gc_loss, comp_loss, homo_loss) ==
    LET struct ==
            IF Truthy(st)
            THEN IF "structure" \notin DOMAIN w THEN Raise("KeyError", "structure")
                 ELSE aptamer_structure_loss(lg, st, Float(w["structure"]))
            ELSE Return(Tensor(0))
        struct_loss == struct.value
        total_loss == Add(Add(gc_loss, comp_loss), homo_loss)
    IN  IF struct.kind = "raise" THEN struct
        ELSE IF ~HasItem(struct_loss) THEN Raise("AttributeError", "item")
        ELSE [kind |-> "return",
              total_loss |-> total_loss,
              loss_dict |->
                 [k \in {"gc_content_loss", "complexity_loss", "homopolymer_loss",
                         "structure_loss", "total_aptamer_loss"} |->
                     CASE k = "gc_content_loss" -> Item(gc_loss)
                       [] k = "complexity_loss" -> Item(comp_loss)
                       [] k = "homopolymer_loss" -> Item(homo_loss)
                       [] k = "structure_loss" ->
                            IF Truthy(st) THEN Item(struct_loss) ELSE Float(0)
                       [] k = "total_aptamer_loss" -> Item(total_loss)]]

\* lines 319-331: the structure term, the total and the returned pair
design_finish(lg, st, w, gc_loss, comp_loss, homo_loss) ==
    LET struct ==
            IF Truthy(st)
            THEN IF "structure" \notin DOMAIN w THEN Raise("KeyError", "structure")
                 ELSE aptamer_structure_loss(lg, st, Float(w["structure"]))
            ELSE Return(Tensor(0))
        struct_loss == struct.value
        total_loss == Add(Add(Add(gc_loss, comp_loss), homo_loss), struct_loss)
    IN  IF struct.kind = "raise" THEN struct
        ELSE IF ~HasItem(struct_loss) THEN Raise("AttributeError", "item")
        ELSE [kind |-> "return",
              total_loss |-> total_loss,
              loss_dict |->
                 [k \in {"gc_content_loss", "complexity_loss", "homopolymer_loss",
                         "structure_loss", "total_aptamer_loss"} |->
                     CASE k = "gc_content_loss" -> Item(gc_loss)
                       [] k = "complexity_loss" -> Item(comp_loss)
                       [] k = "homopolymer_loss" -> Item(homo_loss)
                       [] k = "structure_loss" ->
                            IF Truthy(st) THEN Item(struct_loss) ELSE Float(0)
                       [] k = "total_aptamer_loss" -> Item(total_loss)]]

\* aptamer_design_loss filling a missing key with its default weight
aptamer_design_loss_DefaultFill(lg, target, st, ws) ==
    LET w == IF ws.none THEN DefaultWeights
             ELSE [k \in WeightKeys |->
                      IF k \in DOMAIN ws.d THEN ws.d[k] ELSE DefaultWeights[k]]
        gc_loss == gc_content_loss(lg, Float(target), Float(w["gc_content"]))
        comp_loss == sequence_complexity_loss(lg, Float(w["complexity"]))
        homo_loss == homopolymer_penalty(lg, MaxRunDefault, Float(w["homopolymer"]))
    IN  IF "gc_content" \notin DOMAIN w THEN Raise("KeyError", "gc_content")
        ELSE IF ~HasItem(gc_loss) THEN Raise("AttributeError", "item")
        ELSE IF "complexity" \notin DOMAIN w THEN Raise("KeyError", "complexity")
        ELSE IF ~HasItem(comp_loss) THEN Raise("AttributeError", "item")
        ELSE IF "homopolymer" \notin DOMAIN w THEN Raise("KeyError", "homopolymer")
        ELSE IF ~HasItem(homo_loss) THEN Raise("AttributeError", "item")
        ELSE design_finish(lg, st, w, gc_loss, comp_loss, homo_loss)

aptamer_design_loss(lg, target, st, ws) ==
    LET w == IF ws.none THEN DefaultWeights ELSE ws.d
        gc_loss == gc_content_loss(lg, Float(target), Float(w["gc_content"]))
        comp_loss == sequence_complexity_loss(lg, Float(w["complexity"]))
        homo_loss == homopolymer_penalty(lg, MaxRunDefault, Float(w["homopolymer"]))
    IN  IF "gc_content" \notin DOMAIN w THEN Raise("KeyError", "gc_content")
        ELSE IF ~HasItem(gc_loss) THEN Raise("AttributeError", "item")
        ELSE IF "complexity" \notin DOMAIN w THEN Raise("KeyError", "complexity")
        ELSE IF ~HasItem(comp_loss) THEN Raise("AttributeError", "item")
        ELSE IF "homopolymer" \notin DOMAIN w THEN Raise("KeyError", "homopolymer")
        ELSE IF ~HasItem(homo_loss) THEN Raise("AttributeError", "item")
        ELSE design_finish(lg, st, w, gc_loss, comp_loss, homo_loss)

(***************************************************************************)
(* Arguments the model draws                                               *)
(***************************************************************************)

MaxLen == 9        \* longest sequence over NarrowAlphabet
WideLen == 4       \* longest sequence over WideAlphabet
MaxRunLen == 6     \* longest run of a two-run sequence
MaxCount == 7      \* most A's, and most G's, of a calculate_tm sequence

NarrowAlphabet == {"A", "G", "U"}
WideAlphabet == {"A", "C", "G", "T", "U", "N", "a", "g"}
RunAlphabet == {"A", "C", "G", "T", "U"}

Strings(alphabet, n) == UNION {[1..k -> alphabet] : k \in 0..n}

Balanced20 == Rep(<<"A", "C", "G", "U">>, 5)
Homopolymer20 == Rep(<<"A">>, 6) \o Rep(<<"G">>, 4) \o Rep(<<"C">>, 4)
                    \o Rep(<<"U">>, 4) \o Rep(<<"A">>, 2)
Wallace12 == Rep(<<"A", "C", "G", "T">>, 3)

TwoRuns ==
    {Rep(<<a>>, m) \o Rep(<<b>>, n) :
        a \in RunAlphabet, b \in RunAlphabet, m \in 1..MaxRunLen, n \in 0..MaxRunLen}

ValidateSequences ==
    Strings(NarrowAlphabet, MaxLen) \cup Strings(WideAlphabet, WideLen)
        \cup TwoRuns \cup {Balanced20, Homopolymer20, Wallace12}

MinLengths == {0, MinLengthDefault}
MaxLengths == {MaxLen - 2, MaxLengthDefault}

TmSequences ==
    {Rep(<<"A">>, a) \o Rep(<<"G">>, g) \o Rep(<<x>>, k) :
        a \in 0..MaxCount, g \in 0..MaxCount, x \in WideAlphabet, k \in 0..2}
        \cup {Wallace12, Balanced20}

NaConcs == {NaConcDefault, 1000}
MgConcs == {0, MgConcDefault, 10}

MaxSeqLen == 5     \* longest logits of a direct call of a loss term
DesignSeqLen == 3  \* longest logits of a call of aptamer_design_loss

\* one position of logits: certainty on A, G, U or DNA G, or all logits equal
PositionLogits == {{A_RNA}, {G_RNA}, {U_RNA}, {G_DNA}, Vocab}

\* the logits of 1 to n positions (the engine is not defined for length 0)
Logits(n) == UNION {[1..k -> PositionLogits] : k \in 1..n}

StructureTypes == {NoStructure, "", "hairpin", "g_quadruplex", "kissing_loop"}

\* weight of a direct call: 0, the default of homopolymer_penalty, 1
Weights == {0, (30 * SCALE) \div 100, SCALE}

MaxRuns == {2, MaxRunDefault}

TargetGcs == {SCALE \div 2}

\* None, the default dict with any of its keys removed, and two uniform dicts
WeightConfigs ==
    {None}
        \cup {Dict([k \in D |-> DefaultWeights[k]]) : D \in SUBSET WeightKeys}
        \cup {Dict([k \in WeightKeys |-> x]) : x \in {0, SCALE}}

NoTensorArgs ==
    /\ logits = NoArg
    /\ target_gc = NoArg
    /\ structure_type = NoArg
    /\ weights = NoArg
    /\ max_run = NoArg
    /\ weight = NoArg

NoStringArgs ==
    /\ sequence = NoArg
    /\ min_length = NoArg
    /\ max_length = NoArg
    /\ na_conc = NoArg
    /\ mg_conc = NoArg

(***************************************************************************)
(* One call of validate_aptamer_sequence                                   *)
(***************************************************************************)

InitValidate ==
    /\ pc = "ready"
    /\ fn = "validate_aptamer_sequence"
    /\ sequence \in ValidateSequences
    /\ min_length \in MinLengths
    /\ max_length \in MaxLengths
    /\ na_conc = NoArg
    /\ mg_conc = NoArg
    /\ NoTensorArgs
    /\ result = NoResult

Validate ==
    /\ pc = "ready"
    /\ fn = "validate_aptamer_sequence"
    /\ result' = validate_aptamer_sequence(sequence, min_length, max_length)
    /\ pc' = "done"
    /\ UNCHANGED args

SpecValidate == InitValidate /\ [][Validate]_vars

(***************************************************************************)
(* One call of calculate_tm                                                *)
(***************************************************************************)

InitTm ==
    /\ pc = "ready"
    /\ fn = "calculate_tm"
    /\ sequence \in TmSequences
    /\ min_length = NoArg
    /\ max_length = NoArg
    /\ na_conc \in NaConcs
    /\ mg_conc \in MgConcs
    /\ NoTensorArgs
    /\ result = NoResult

CalculateTm ==
    /\ pc = "ready"
    /\ fn = "calculate_tm"
    /\ result' = calculate_tm(sequence, na_conc, mg_conc)
    /\ pc' = "done"
    /\ UNCHANGED args

SpecTm == InitTm /\ [][CalculateTm]_vars

(***************************************************************************)
(* One call of a function of the loss engine                               *)
(***************************************************************************)

InitPenalty ==
    /\ fn = "homopolymer_penalty"
    /\ logits \in Logits(MaxSeqLen)
    /\ max_run \in MaxRuns
    /\ weight \in Weights
    /\ target_gc = NoArg
    /\ structure_type = NoArg
    /\ weights = NoArg

InitStructure ==
    /\ fn = "aptamer_structure_loss"
    /\ logits \in Logits(MaxSeqLen)
    /\ structure_type \in StructureTypes
    /\ weight \in Weights
    /\ target_gc = NoArg
    /\ weights = NoArg
    /\ max_run = NoArg

InitDesign ==
    /\ fn = "aptamer_design_loss"
    /\ logits \in Logits(DesignSeqLen)
    /\ target_gc \in TargetGcs
    /\ structure_type \in StructureTypes
    /\ weights \in WeightConfigs
    /\ max_run = NoArg
    /\ weight = NoArg

InitLoss ==
    /\ pc = "ready"
    /\ NoStringArgs
    /\ result = NoResult
    /\ (InitPenalty \/ InitStructure \/ InitDesign)

HomopolymerPenalty ==
    /\ pc = "ready"
    /\ fn = "homopolymer_penalty"
    /\ result' = Return(homopolymer_penalty(logits, max_run, Float(weight)))
    /\ pc' = "done"
    /\ UNCHANGED args

AptamerStructureLoss ==
    /\ pc = "ready"
    /\ fn = "aptamer_structure_loss"
    /\ result' = aptamer_structure_loss(logits, structure_type, Float(weight))
    /\ pc' = "done"
    /\ UNCHANGED args

AptamerDesignLoss ==
    /\ pc = "ready"
    /\ fn = "aptamer_design_loss"
    /\ result' = aptamer_design_loss(logits, target_gc, structure_type, weights)
    /\ pc' = "done"
    /\ UNCHANGED args

NextLoss == HomopolymerPenalty \/ AptamerStructureLoss \/ AptamerDesignLoss

SpecLoss == InitLoss /\ [][NextLoss]_vars

(***************************************************************************)
(* Any call of the module                                                  *)
(***************************************************************************)

Init == InitValidate \/ InitTm \/ InitLoss

Next ==
    \/ Validate
    \/ CalculateTm
    \/ HomopolymerPenalty
    \/ AptamerStructureLoss
    \/ AptamerDesignLoss

Spec == Init /\ [][Next]_vars

(***************************************************************************)
(* Properties of validate_aptamer_sequence                                 *)
(***************************************************************************)

ValidateDone == pc = "done" /\ fn = "validate_aptamer_sequence"

DefaultBounds == min_length = MinLengthDefault /\ max_length = MaxLengthDefault

\* The checks of the validator, each stated on the upper-cased sequence by
\* positions rather than by the validator's own operators.
TooShort == Len(sequence) < min_length
TooLong == Len(sequence) > max_length
HasInvalid == \E i \in 1..Len(sequence) : Upper(sequence)[i] \notin {"A", "C", "G", "T", "U"}
GcCount == Cardinality({i \in 1..Len(sequence) : Upper(sequence)[i] \in {"G", "C"}})
ExtremeGc ==
    IF Len(sequence) = 0 THEN TRUE
    ELSE 10 * GcCount < 3 * Len(sequence) \/ 10 * GcCount > 7 * Len(sequence)
HasRun(nt) ==
    \E i \in 1..(Len(sequence) - 5) : \A j \in 0..5 : Upper(sequence)[i + j] = nt
HasLongRun == \E nt \in {"A", "C", "G", "U"} : HasRun(nt)
\* the doubled sequence holds, somewhere, length // i + 1 copies of its own
\* first i bases
HasPeriod(i) ==
    LET s == Upper(sequence)
        L == Len(s)
        unit == IF i < L THEN i ELSE L
        n == unit * ((L \div i) + 1)
    IN  \E k \in 0..(2 * L - n) :
            \A j \in 1..n : s[((k + j - 1) % L) + 1] = s[((j - 1) % unit) + 1]
HasSimpleRepeat == \E i \in 2..5 : HasPeriod(i)

ExpectedMessage ==
    IF TooShort THEN "Sequence too short"
    ELSE IF TooLong THEN "Sequence too long"
    ELSE IF HasInvalid THEN "Invalid nucleotides"
    ELSE IF ExtremeGc THEN "Extreme GC content"
    ELSE IF HasLongRun THEN "Long homopolymer detected"
    ELSE IF HasSimpleRepeat THEN "Simple repeat detected"
    ELSE "Sequence passed validation"

\* C1 (as stated): validate_aptamer_sequence("ACGUACGUACGUACGUACGU") with the
\* default bounds returns (True, success message).
C1_Original ==
    (ValidateDone /\ sequence = Balanced20 /\ DefaultBounds) => result = Pass

\* C1 (amended): validate_aptamer_sequence("ACGUACGUACGUACGUACGU") with the
\* default bounds passes the length, alphabet, GC and homopolymer checks and
\* the repeat check for periods 2 and 3, and is rejected at period 4:
\* it returns (False, "Simple repeat detected: ACGU").
C1_Amended ==
    (ValidateDone /\ sequence = Balanced20 /\ DefaultBounds) =>
        /\ result = Fail("Simple repeat detected", <<"A", "C", "G", "U">>)
        /\ ~TooShort /\ ~TooLong /\ ~HasInvalid /\ ~ExtremeGc /\ ~HasLongRun
        /\ ~HasPeriod(2) /\ ~HasPeriod(3) /\ HasPeriod(4)

C1_Witness ==
    ValidateDone /\ sequence = Balanced20 /\ DefaultBounds /\ result.ok = FALSE

\* C2: the validator reports the first failing check in the order too short,
\* too long, invalid characters, GC fraction outside [0.3, 0.7], homopolymer
\* run of 6 of A/C/G/U, simple repeat of period 2..5; it returns
\* (True, success message) only when no check fails.
C2_FirstFailingCheck ==
    ValidateDone =>
        /\ result.msg = ExpectedMessage
        /\ result.ok = (result.msg = "Sequence passed validation")
        /\ result.ok =
             ~(TooShort \/ TooLong \/ HasInvalid \/ ExtremeGc \/ HasLongRun
                  \/ HasSimpleRepeat)

\* a sequence failing the GC check and the homopolymer check at once is
\* reported for its GC content
C2_Witness ==
    /\ ValidateDone
    /\ ~TooShort /\ ~TooLong /\ ~HasInvalid /\ ExtremeGc /\ HasLongRun
    /\ result.msg = "Extreme GC content"

\* C5: a sequence that passes the length, alphabet and GC checks and holds a
\* run of 6 or more of one base of A, C, G, U is rejected with a homopolymer
\* message naming a base that has such a run; a sequence returned as valid
\* holds no run of 6 of A, C, G or U.
C5_HomopolymerRejected ==
    ValidateDone =>
        /\ (~TooShort /\ ~TooLong /\ ~HasInvalid /\ ~ExtremeGc /\ HasLongRun) =>
              /\ result.ok = FALSE
              /\ result.msg = "Long homopolymer detected"
              /\ \E nt \in {"A", "C", "G", "U"} :
                    HasRun(nt) /\ result.detail = Rep(<<nt>>, 6)
        /\ result.ok => ~HasLongRun
        /\ (sequence = Homopolymer20 /\ DefaultBounds) =>
              result = Fail("Long homopolymer detected", Rep(<<"A">>, 6))

C5_Witness ==
    /\ ValidateDone /\ sequence = Homopolymer20 /\ DefaultBounds
    /\ result.msg = "Long homopolymer detected"

(***************************************************************************)
(* Properties of calculate_tm                                              *)
(***************************************************************************)

TmDone == pc = "done" /\ fn = "calculate_tm"

BaseCount(chars) ==
    Cardinality({i \in 1..Len(sequence) : Upper(sequence)[i] \in chars})

WallaceValue == (2 * BaseCount({"A", "T", "U"}) + 4 * BaseCount({"G", "C"})) * TmUnit

\* C6 (as stated): for a sequence shorter than 14 bases calculate_tm with its
\* default concentrations returns 2 x (A, T, U count) + 4 x (G, C count).
C6_Original ==
    (TmDone /\ Len(sequence) < 14 /\ na_conc = NaConcDefault /\ mg_conc = MgConcDefault)
        => result.tm = WallaceValue

\* C6 (amended): for a sequence shorter than 14 bases calculate_tm returns
\* the Wallace value 2 x (A, T, U count) + 4 x (G, C count) plus the
\* magnesium correction 2 x log10(mg_conc) when mg_conc > 0, which is
\* +0.60206 at the default 2 mM, so the result is still computable from the
\* base counts alone; sequences of length 14 or more take the other formula.
C6_Amended ==
    TmDone =>
        LET L == Len(sequence)
            mg == IF mg_conc > 0 THEN 2 * Log10Milli(mg_conc * 1000) ELSE 0
        IN  /\ L < 14 => result.tm = WallaceValue + mg
            /\ (L < 14 /\ mg_conc = MgConcDefault) => result.tm = WallaceValue + 60206
            /\ L >= 14 =>
                 result.tm = 8150000 + (166 * Log10Milli(na_conc)) \div 10
                                + (4100000 * BaseCount({"G", "C"})) \div L
                                - 67500000 \div L + mg

C6_Witness ==
    /\ TmDone /\ sequence = Wallace12
    /\ na_conc = NaConcDefault /\ mg_conc = MgConcDefault
    /\ result.tm = 36 * TmUnit + 60206

(***************************************************************************)
(* Properties of the loss engine                                           *)
(***************************************************************************)

PenaltyDone == pc = "done" /\ fn = "homopolymer_penalty"
StructureDone == pc = "done" /\ fn = "aptamer_structure_loss"
DesignDone == pc = "done" /\ fn = "aptamer_design_loss"

Returned == result.kind = "return"

BreakdownKeys ==
    {"gc_content_loss", "complexity_loss", "homopolymer_loss", "structure_loss",
     "total_aptamer_loss"}

\* C3: in a result of aptamer_design_loss the breakdown holds exactly the
\* five keys, every entry is a number, and total_aptamer_loss is the sum of
\* gc_content_loss, complexity_loss, homopolymer_loss and structure_loss,
\* for every weight configuration and structure type.
C3_TotalIsSum ==
    (DesignDone /\ Returned) =>
        LET d == result.loss_dict IN
        /\ DOMAIN d = BreakdownKeys
        /\ \A k \in BreakdownKeys : ~d[k].nan
        /\ d["total_aptamer_loss"].v =
              d["gc_content_loss"].v + d["complexity_loss"].v
                 + d["homopolymer_loss"].v + d["structure_loss"].v
        /\ result.total_loss.v = d["total_aptamer_loss"].v

C3_Witness ==
    /\ DesignDone /\ Returned
    /\ structure_type = "hairpin"
    /\ ~weights.none
    /\ result.loss_dict["structure_loss"].v # 0
    /\ result.loss_dict["homopolymer_loss"].v # 0

\* the keys aptamer_design_loss asks of a dict, in the order it asks them
RequestedKeys ==
    IF structure_type \in {NoStructure, ""}
    THEN <<"gc_content", "complexity", "homopolymer">>
    ELSE <<"gc_content", "complexity", "homopolymer", "structure">>

MissingKeys ==
    {i \in 1..Len(RequestedKeys) : RequestedKeys[i] \notin DOMAIN weights.d}

\* C4: a weights dict lacking the key of a requested term makes
\* aptamer_design_loss raise instead of returning a result computed with a
\* default weight: a KeyError of the first missing key when one of
\* gc_content, complexity, homopolymer is missing, and any KeyError raised
\* names the first missing key; a dict lacking only 'structure' raises no
\* KeyError when no structure type is given, nor does weights = None.
C4_MissingKeyRaises ==
    DesignDone =>
        /\ (~weights.none /\ MissingKeys # {}) =>
              /\ result.kind = "raise"
              /\ result.exc = "KeyError" => result.what = RequestedKeys[Min(MissingKeys)]
              /\ Min(MissingKeys) <= 3 => result.exc = "KeyError"
        /\ (weights.none \/ MissingKeys = {}) =>
              ~(result.kind = "raise" /\ result.exc = "KeyError")

C4_Witness ==
    /\ DesignDone
    /\ ~weights.none
    /\ DOMAIN weights.d = {"gc_content", "complexity", "homopolymer"}
    /\ structure_type = "hairpin"
    /\ result = Raise("KeyError", "structure")

\* logits is the one-hot alternation X, Y, X, Y, ... of two complementary bases
ComplementaryPairs ==
    {<<A_RNA, U_RNA>>, <<U_RNA, A_RNA>>, <<G_RNA, C_RNA>>, <<C_RNA, G_RNA>>}

IsAlternation ==
    /\ Len(logits) >= 2
    /\ \E xy \in ComplementaryPairs :
          \A l \in 1..Len(logits) : logits[l] = {xy[2 - (l % 2)]}

\* logits holds certainty on one base over at least n consecutive positions
HasCertainRun(n) ==
    \E s \in 1..(Len(logits) - n + 1) :
        /\ Cardinality(logits[s]) = 1
        /\ \A l \in s..(s + n - 1) : logits[l] = logits[s]

C8_EmptyStemIsZero ==
    (StructureDone /\ structure_type = "hairpin" /\ Len(logits) < 3) =>
        /\ result.kind = "return"
        /\ ~result.value.nan
        /\ result.value.v = 0

\* C9: aptamer_structure_loss returns 0 for every structure type other than
\* 'hairpin' and 'g_quadruplex', whatever the weight; aptamer_design_loss
\* computes the structure term only when a structure type is given (then the
\* entry is the value of aptamer_structure_loss, and the 'structure' weight
\* is required), and otherwise records structure_loss = 0, needs no
\* 'structure' weight, and the total is the sum of the three other terms.
C9_StructureDispatch ==
    /\ (StructureDone /\ structure_type \notin {"hairpin", "g_quadruplex"}) =>
          result = Return(Tensor(0))
    /\ (DesignDone /\ Returned /\ structure_type \in {NoStructure, ""}) =>
          LET d == result.loss_dict IN
          /\ d["structure_loss"] = Float(0)
          /\ d["total_aptamer_loss"].v =
                d["gc_content_loss"].v + d["complexity_loss"].v
                   + d["homopolymer_loss"].v
    /\ (DesignDone /\ Returned /\ structure_type \notin {NoStructure, ""}) =>
          LET w == IF weights.none THEN StructureWeightDefault
                   ELSE weights.d["structure"]
              s == aptamer_structure_loss(logits, structure_type, Float(w))
          IN  /\ s.kind = "return"
              /\ result.loss_dict["structure_loss"].v = s.value.v
              /\ structure_type \notin {"hairpin", "g_quadruplex"} =>
                    result.loss_dict["structure_loss"].v = 0

C9_Witness ==
    /\ StructureDone /\ structure_type = "kissing_loop"
    /\ weight = SCALE /\ Len(logits) = 3
    /\ result = Return(Tensor(0))

\* C10: for logits of sequence length >= 1 and a complete weight
\* configuration homopolymer_penalty returns a tensor, and
\* aptamer_design_loss (no structure type) returns a result, whose
\* homopolymer_loss is 0 when the sequence length is 1.
C10_LengthOneCompletes ==
    /\ (PenaltyDone /\ Len(logits) >= 1) => result.value.t = "tensor"
    /\ (DesignDone /\ Len(logits) >= 1 /\ structure_type = NoStructure
          /\ (weights.none \/ DOMAIN weights.d = WeightKeys)) =>
          /\ result.kind = "return"
          /\ Len(logits) = 1 => result.loss_dict["homopolymer_loss"].v = 0

====
